---- MODULE Spec2Model ----
(***************************************************************************)
(* PatchPilot server (src/server.py): the Flask handlers over the two      *)
(* SQLAlchemy tables `client` and `client_update`, one action per route.   *)
(* Every handler runs to its commit (or early return) in one step.         *)
(***************************************************************************)
EXTENDS Integers, Sequences, FiniteSets, TLC

\* ------------------------------------------------------------------ bounds
MaxTokens == 3          \* tokens generate_token may hand out in one run
MaxTime == 1            \* the clock runs over 0..MaxTime
MaxRows == 2            \* client_update rows found in the database at start
MaxRequests == 2        \* requests served in one run
MaxAge == 4             \* minutes the server's clock may read at start

\* --------------------------------------------------------------- constants
NULL == "<NULL>"                      \* SQL NULL / Python None
NoTime == -1                          \* last_checkin IS NULL
ADMIN_TOKEN == "admin-secret"
DefaultClientName == "Unnamed Client"
OnlineWindow == 3                     \* timedelta(minutes=3); the clock counts minutes

ClientIds == {"c1", "c2", "c3"}
SeedIds == {"c1", "c2"}               \* ids that may already be stored at start
Serials == {"s1", "s2"}
RemoteAddrs == {"10.0.0.7"}
Packages == {"pkg-A", "pkg-B"}
Statuses == {"pending", "installing", "installed", "failed"}
Actions == {"install_selected_updates", "install_all_updates", "reboot"}
TelemetryValues == {"v1", "v2"}

\* payload key -> column, for the merged fields of client_update
TelemetryColumns == {"client_name", "os_name", "os_version", "cpu", "ram",
                     "disk_total", "disk_free", "uptime"}

Tok(i) == "t" \o ToString(i)
SeedToken(id) == IF id = "c1" THEN Tok(1) ELSE Tok(2)
SeedSerial(id) == IF id = "c1" THEN "s1" ELSE "s2"
NumSeedTokens == Cardinality(SeedIds)

VARIABLES
    clients,      \* table client: id -> row
    cupdates,     \* table client_update: sequence of rows, index = primary key
    now,          \* datetime.utcnow()
    nextToken,    \* how many tokens have been generated so far
    issued,       \* id -> tokens handed to that device, oldest first
    nreq,         \* requests served
    req,          \* the last request: route and arguments
    resp          \* its response

vars == <<clients, cupdates, now, nextToken, issued, nreq, req, resp>>

\* ------------------------------------------------------------ Python idiom
Truthy(x) == x # NULL /\ x # ""     \* of a string or None
TruthyList(l) == Len(l) > 0          \* of a list

\* dict.get(key, default)
Get(d, key, default) == IF key \in DOMAIN d THEN d[key] ELSE default

\* a or b
Or(a, b) == IF Truthy(a) THEN a ELSE b

\* ----------------------------------------------------------------- tables
\* (variant: updates_available defaults to True)
NewClient_flagged(name, ip, token, serial) ==
    [client_name |-> name, ip_address |-> ip, approved |-> FALSE,
     allow_checkin |-> TRUE, force_update |-> FALSE, last_checkin |-> NoTime,
     token |-> token, file_hashes |-> NULL, updates_available |-> TRUE,
     os_name |-> NULL, os_version |-> NULL, cpu |-> NULL, ram |-> NULL,
     disk_total |-> NULL, disk_free |-> NULL, uptime |-> NULL,
     serial_number |-> serial]

\* Client(...) with the column defaults of the model class
NewClient(name, ip, token, serial) ==
    [client_name |-> name, ip_address |-> ip, approved |-> FALSE,
     allow_checkin |-> TRUE, force_update |-> FALSE, last_checkin |-> NoTime,
     token |-> token, file_hashes |-> NULL, updates_available |-> FALSE,
     os_name |-> NULL, os_version |-> NULL, cpu |-> NULL, ram |-> NULL,
     disk_total |-> NULL, disk_free |-> NULL, uptime |-> NULL,
     serial_number |-> serial]

\* ClientUpdate.query.filter_by(client_id=cid): the primary keys of the rows
RowsOf(cid) == {i \in DOMAIN cupdates : cupdates[i].client_id = cid}

\* (variant: the end of the window is left out)
is_online_strict(row) ==
    IF row.last_checkin = NoTime
    THEN FALSE
    ELSE now - row.last_checkin < OnlineWindow

\* Client.is_online()
is_online(row) ==
    IF row.last_checkin = NoTime
    THEN FALSE
    ELSE now - row.last_checkin <= OnlineWindow

NoBody == [k \in {} |-> NULL]       \* no JSON body, or {}

Request(op, cid, payload, authorization) ==
    [op |-> op, client_id |-> cid, payload |-> payload, authorization |-> authorization]

Response(op, cid, status, body) ==
    [op |-> op, client_id |-> cid, status |-> status, body |-> body]

\* ----------------------------------------------------------------- helpers
\* generate_token(): a token never handed out before
generate_token == Tok(nextToken + 1)

\* auth_admin(payload): the shared administrator secret
auth_admin(payload) == Get(payload, "token", NULL) = ADMIN_TOKEN

\* ------------------------------------------------------------ read routes
\* GET /sse/clients: one event of sse_generator
sse_clients ==
    /\ req' = Request("sse_clients", NULL, NoBody, NULL)
    /\ resp' = Response("sse_clients", NULL, 200,
                        [ts |-> now,
                         clients |-> [c \in DOMAIN clients |->
                                        [online |-> is_online(clients[c]),
                                         updates |-> clients[c].updates_available]]])
    /\ UNCHANGED <<clients, cupdates, now, nextToken, issued>>

\* ----------------------------------------------------------- admin routes
\* POST /admin/force-reinstall/<client_id>
force_reinstall_client(client_id) ==
    /\ req' = Request("force_reinstall_client", client_id, NoBody, NULL)
    /\ IF client_id \notin DOMAIN clients
       THEN /\ resp' = Response("force_reinstall_client", client_id, 404, [error |-> "Client not found"])
            /\ UNCHANGED clients
       ELSE /\ clients' = [clients EXCEPT ![client_id].force_update = TRUE]
            /\ resp' = Response("force_reinstall_client", client_id, 204, [status |-> ""])
    /\ UNCHANGED <<cupdates, now, nextToken, issued>>

\* (variant: Client.query.get, an unknown id is answered like a known one)
approve_client_lenient(client_id) ==
    /\ req' = Request("approve_client", client_id, NoBody, NULL)
    /\ clients' = IF client_id \in DOMAIN clients
                  THEN [clients EXCEPT ![client_id].approved = TRUE]
                  ELSE clients
    /\ resp' = Response("approve_client", client_id, 204, [status |-> ""])
    /\ UNCHANGED <<cupdates, now, nextToken, issued>>

\* POST /approve/<client_id>
approve_client(client_id) ==
    /\ req' = Request("approve_client", client_id, NoBody, NULL)
    /\ IF client_id \notin DOMAIN clients
       THEN /\ resp' = Response("approve_client", client_id, 404, [error |-> "Not Found"])
            /\ UNCHANGED clients
       ELSE /\ clients' = [clients EXCEPT ![client_id].approved = TRUE]
            /\ resp' = Response("approve_client", client_id, 204, [status |-> ""])
    /\ UNCHANGED <<cupdates, now, nextToken, issued>>

\* POST /admin/force-update/<client_id>
force_update_client(client_id) ==
    /\ req' = Request("force_update_client", client_id, NoBody, NULL)
    /\ IF client_id \notin DOMAIN clients
       THEN /\ resp' = Response("force_update_client", client_id, 404, [error |-> "Not Found"])
            /\ UNCHANGED clients
       ELSE /\ clients' = [clients EXCEPT ![client_id].force_update = TRUE]
            /\ resp' = Response("force_update_client", client_id, 204, [status |-> ""])
    /\ UNCHANGED <<cupdates, now, nextToken, issued>>

\* (variant: the route flips the flag)
allow_checkin_client_toggle(client_id) ==
    /\ req' = Request("allow_checkin_client", client_id, NoBody, NULL)
    /\ IF client_id \notin DOMAIN clients
       THEN /\ resp' = Response("allow_checkin_client", client_id, 404, [error |-> "Not Found"])
            /\ UNCHANGED clients
       ELSE /\ clients' = [clients EXCEPT ![client_id].allow_checkin = ~@]
            /\ resp' = Response("allow_checkin_client", client_id, 204, [status |-> ""])
    /\ UNCHANGED <<cupdates, now, nextToken, issued>>

\* POST /admin/allow-checkin/<client_id>
allow_checkin_client(client_id) ==
    /\ req' = Request("allow_checkin_client", client_id, NoBody, NULL)
    /\ IF client_id \notin DOMAIN clients
       THEN /\ resp' = Response("allow_checkin_client", client_id, 404, [error |-> "Not Found"])
            /\ UNCHANGED clients
       ELSE /\ clients' = [clients EXCEPT ![client_id].allow_checkin = TRUE]
            /\ resp' = Response("allow_checkin_client", client_id, 204, [status |-> ""])
    /\ UNCHANGED <<cupdates, now, nextToken, issued>>

\* POST /api/clients/force_all
force_all_clients(payload) ==
    /\ req' = Request("force_all_clients", NULL, payload, NULL)
    /\ IF ~auth_admin(payload)
       THEN /\ resp' = Response("force_all_clients", NULL, 401, [error |-> "Unauthorized"])
            /\ UNCHANGED clients
       ELSE /\ clients' = [c \in DOMAIN clients |-> [clients[c] EXCEPT !.force_update = TRUE]]
            /\ resp' = Response("force_all_clients", NULL, 200,
                                [status |-> "all clients forced to update"])
    /\ UNCHANGED <<cupdates, now, nextToken, issued>>

\* The rows the loop of install_selected_updates sets to "installing":
\* for each listed package the one row .first() returns, if any.  The query
\* has no ORDER BY, so which of several matching rows comes first is the
\* database's choice (first: package -> primary key).
SelectedMatches(client_id, upd) ==
    {i \in RowsOf(client_id) : cupdates[i].kb_or_package = upd}

SelectedPackages(client_id, updates) ==
    {updates[k] : k \in {j \in 1..Len(updates) : SelectedMatches(client_id, updates[j]) # {}}}

InstallSelected(client_id, updates, first) ==
    [i \in DOMAIN cupdates |->
        IF \E p \in SelectedPackages(client_id, updates) : first[p] = i
        THEN [cupdates[i] EXCEPT !.status = "installing"]
        ELSE cupdates[i]]

\* (variant: the query loses its status filter)
InstallAll_unfiltered(client_id) ==
    [i \in DOMAIN cupdates |->
        IF i \in RowsOf(client_id)
        THEN [cupdates[i] EXCEPT !.status = "installing"]
        ELSE cupdates[i]]

\* ClientUpdate.query.filter_by(client_id=..., status="pending").all()
InstallAll(client_id) ==
    [i \in DOMAIN cupdates |->
        IF i \in RowsOf(client_id) /\ cupdates[i].status = "pending"
        THEN [cupdates[i] EXCEPT !.status = "installing"]
        ELSE cupdates[i]]

\* POST /api/clients/<client_id>/commands
send_command(client_id, payload) ==
    /\ req' = Request("send_command", client_id, payload, NULL)
    /\ LET action == Get(payload, "action", NULL)
           updates == Get(payload, "updates", <<>>)
       IN  IF client_id \notin DOMAIN clients
           THEN /\ resp' = Response("send_command", client_id, 404, [error |-> "Not Found"])
                /\ UNCHANGED cupdates
           ELSE IF ~auth_admin(payload)
           THEN /\ resp' = Response("send_command", client_id, 401, [error |-> "Unauthorized"])
                /\ UNCHANGED cupdates
           ELSE IF action = "install_selected_updates" /\ TruthyList(updates)
           THEN /\ \E first \in [SelectedPackages(client_id, updates) -> DOMAIN cupdates] :
                     /\ \A p \in DOMAIN first : first[p] \in SelectedMatches(client_id, p)
                     /\ cupdates' = InstallSelected(client_id, updates, first)
                /\ resp' = Response("send_command", client_id, 200, [status |-> "command queued"])
           ELSE IF action = "install_all_updates"
           THEN /\ cupdates' = InstallAll(client_id)
                /\ resp' = Response("send_command", client_id, 200, [status |-> "command queued"])
           ELSE /\ resp' = Response("send_command", client_id, 400, [error |-> "Unknown action"])
                /\ UNCHANGED cupdates
    /\ UNCHANGED <<clients, now, nextToken, issued>>

\* ---------------------------------------------------------- device routes
\* (variant: the lookup by serial number finds nothing)
BySerial_none(serial) == {}

\* Client.query.filter_by(serial_number=serial): None compares as IS NULL
BySerial(serial) == {c \in DOMAIN clients : clients[c].serial_number = serial}

\* (variant: the serial-number lookup runs although the id was found)
ReadoptCandidates_always(data) == BySerial(Get(data, "serial_number", NULL))

\* if not client: client = Client.query.filter_by(serial_number=...).first()
ReadoptCandidates(data) ==
    IF data["id"] \in DOMAIN clients
    THEN {}
    ELSE BySerial(Get(data, "serial_number", NULL))

\* (variant: the new token is returned but not stored)
Readopt_unsaved(row, data, remote_addr, token) ==
    [row EXCEPT !.client_name = Get(data, "client_name", @),
                !.ip_address = remote_addr]

\* (variant: re-adoption replaces the row by a newly built one)
Readopt_reset(row, data, remote_addr, token) ==
    NewClient(Get(data, "client_name", row.client_name), remote_addr, token,
              row.serial_number)

\* the re-adoption branch: a new token and the identity fields of the request
Readopt(row, data, remote_addr, token) ==
    [row EXCEPT !.token = token,
                !.client_name = Get(data, "client_name", @),
                !.ip_address = remote_addr]

\* POST /api/clients
add_client(data, remote_addr) ==
    /\ req' = Request("add_client", Get(data, "id", NULL), data, NULL)
    /\ IF DOMAIN data = {} \/ "id" \notin DOMAIN data
       THEN /\ resp' = Response("add_client", NULL, 400, [error |-> "Invalid data"])
            /\ UNCHANGED <<clients, nextToken, issued>>
       ELSE IF ReadoptCandidates(data) # {}
       THEN \E c \in ReadoptCandidates(data) :
            /\ nextToken < MaxTokens
            /\ nextToken' = nextToken + 1
            /\ clients' = [clients EXCEPT ![c] = Readopt(@, data, remote_addr, generate_token)]
            /\ issued' = [issued EXCEPT ![c] = Append(@, generate_token)]
            /\ resp' = Response("add_client", c, 200, [token |-> generate_token])
       ELSE IF data["id"] \in DOMAIN clients
       THEN /\ resp' = Response("add_client", data["id"], 400, [error |-> "Client already exists"])
            /\ UNCHANGED <<clients, nextToken, issued>>
       ELSE /\ nextToken < MaxTokens
            /\ nextToken' = nextToken + 1
            /\ clients' = [c \in DOMAIN clients \cup {data["id"]} |->
                             IF c = data["id"]
                             THEN NewClient(Get(data, "client_name", DefaultClientName),
                                            remote_addr, generate_token,
                                            Get(data, "serial_number", NULL))
                             ELSE clients[c]]
            /\ issued' = [c \in DOMAIN clients \cup {data["id"]} |->
                             IF c = data["id"] THEN <<generate_token>> ELSE issued[c]]
            /\ resp' = Response("add_client", data["id"], 200, [token |-> generate_token])
    /\ UNCHANGED <<cupdates, now>>

\* token = payload.get("token") or request.headers.get("Authorization")
CheckinToken(payload, authorization) == Or(Get(payload, "token", NULL), authorization)

\* (variant: a request without any token passes)
TokenMismatch_lenient(token, row) == Truthy(token) /\ token # row.token

\* if token != client.token
TokenMismatch(token, row) == token # row.token

\* (variant: payload.get(key) without the stored value as default)
CheckinRow_overwrite(row, payload, remote_addr) ==
    [row EXCEPT
       !.client_name = Get(payload, "client_name", NULL),
       !.ip_address = remote_addr,
       !.last_checkin = now,
       !.os_name = Get(payload, "os_name", NULL),
       !.os_version = Get(payload, "os_version", NULL),
       !.cpu = Get(payload, "cpu", NULL),
       !.ram = Get(payload, "ram", NULL),
       !.disk_total = Get(payload, "disk_total", NULL),
       !.disk_free = Get(payload, "disk_free", NULL),
       !.uptime = Get(payload, "uptime", NULL)]

\* the assignments of a check-in to the device's row
CheckinRow(row, payload, remote_addr) ==
    [row EXCEPT
       !.client_name = Get(payload, "client_name", @),
       !.ip_address = remote_addr,
       !.last_checkin = now,
       !.os_name = Get(payload, "os_name", @),
       !.os_version = Get(payload, "os_version", @),
       !.cpu = Get(payload, "cpu", @),
       !.ram = Get(payload, "ram", @),
       !.disk_total = Get(payload, "disk_total", @),
       !.disk_free = Get(payload, "disk_free", @),
       !.uptime = Get(payload, "uptime", @)]

\* POST /api/clients/<client_id>
client_update(client_id, payload, authorization, remote_addr) ==
    /\ req' = Request("client_update", client_id, payload, authorization)
    /\ IF client_id \notin DOMAIN clients
       THEN /\ resp' = Response("client_update", client_id, 404, [error |-> "Not Found"])
            /\ UNCHANGED clients
       ELSE IF DOMAIN payload = {}
       THEN /\ resp' = Response("client_update", client_id, 400, [error |-> "Invalid data"])
            /\ UNCHANGED clients
       ELSE IF TokenMismatch(CheckinToken(payload, authorization), clients[client_id])
       THEN /\ resp' = Response("client_update", client_id, 401, [error |-> "Unauthorized"])
            /\ UNCHANGED clients
       ELSE /\ clients' = [clients EXCEPT
                             ![client_id] = CheckinRow(@, payload, remote_addr)]
            /\ resp' = Response("client_update", client_id, 200,
                                [status |-> "checked in successfully"])
    /\ UNCHANGED <<cupdates, now, nextToken, issued>>

\* time passes between requests
Tick ==
    /\ now < MaxTime
    /\ now' = now + 1
    /\ UNCHANGED <<clients, cupdates, nextToken, issued, nreq, req, resp>>

\* ------------------------------------------------------------------- start
\* init_db() creates the tables only when they are missing: the server starts
\* on whatever rows patchpilot.db already holds.
SeedProfiles == {[approved |-> FALSE, allow_checkin |-> TRUE],
                 [approved |-> TRUE, allow_checkin |-> TRUE],
                 [approved |-> TRUE, allow_checkin |-> FALSE]}

DefaultProfile == [approved |-> FALSE, allow_checkin |-> TRUE]

SeedRows(seeds, packages, statuses) ==
    UNION { [1..n -> [client_id : seeds, kb_or_package : packages, status : statuses]] :
              n \in 0..MaxRows }

SeedClient(id, profile, serial, rows) ==
    [NewClient(DefaultClientName, NULL, SeedToken(id), serial) EXCEPT
        !.approved = profile.approved,
        !.allow_checkin = profile.allow_checkin,
        !.updates_available = \E i \in DOMAIN rows : rows[i].client_id = id]

\* the database found at start: the seed devices and the given rows
Database(seeds, profile, withSerial, rows) ==
    /\ clients = [c \in seeds |->
                    SeedClient(c, profile[c],
                               IF withSerial[c] THEN SeedSerial(c) ELSE NULL, rows)]
    /\ cupdates = rows
    /\ issued = [c \in seeds |-> <<SeedToken(c)>>]

Start ==
    /\ now = 0
    /\ nextToken = NumSeedTokens
    /\ nreq = 0
    /\ req = Request("none", NULL, NoBody, NULL)
    /\ resp = Response("none", NULL, 0, [status |-> ""])

\* ------------------------------------------------------------------ inputs
AdminPayload(keys, act, upd) ==
    [k \in keys |-> CASE k = "token" -> ADMIN_TOKEN
                      [] k = "action" -> act
                      [] k = "updates" -> upd]

TokenStrings == {Tok(i) : i \in 1..MaxTokens}

Bearer(t) == "Bearer " \o t

AllTelemetry(v) == [k \in TelemetryColumns |-> v]

\* body @@ more (the keys of body win)
Merge(body, more) ==
    [k \in DOMAIN body \cup DOMAIN more |-> IF k \in DOMAIN body THEN body[k] ELSE more[k]]

\* ------------------------------------------------- the server, all routes
WorkloadCommands ==
    { AdminPayload({"token", "action"}, "install_all_updates", <<>>),
      AdminPayload({"token", "action", "updates"}, "install_selected_updates", <<"pkg-A">>),
      AdminPayload({"token", "action"}, "reboot", <<>>),
      [token |-> "wrong-secret", action |-> "install_all_updates"] }

WorkloadForceAll == { [token |-> ADMIN_TOKEN], NoBody }

WorkloadRegistrations ==
    { [id |-> c] : c \in ClientIds }
    \cup { [id |-> c, serial_number |-> ser] : c \in ClientIds, ser \in Serials }
    \cup { NoBody }

WorkloadCheckins ==
    { <<[token |-> t], NULL>> : t \in TokenStrings }
    \cup { <<Merge([token |-> t], AllTelemetry("v1")), NULL>> : t \in TokenStrings }
    \cup { <<NoBody, Tok(1)>>, <<[os_name |-> "v2"], Bearer(Tok(1))>> }

Init ==
    /\ \E seeds \in {{}, {"c1", "c2"}}, p1 \in SeedProfiles :
       \E rows \in SeedRows(seeds \cap {"c1"}, {"pkg-A"}, {"pending"}) :
          Database(seeds, [c \in seeds |-> IF c = "c1" THEN p1 ELSE DefaultProfile],
                   [c \in seeds |-> c = "c1"], rows)
    /\ Start

\* one more request is served
Served ==
    /\ nreq < MaxRequests
    /\ nreq' = nreq + 1

Next ==
    \/ \E c \in ClientIds : approve_client(c) /\ Served
    \/ \E c \in ClientIds : force_update_client(c) /\ Served
    \/ \E c \in ClientIds : allow_checkin_client(c) /\ Served
    \/ \E c \in ClientIds : force_reinstall_client(c) /\ Served
    \/ \E p \in WorkloadForceAll : force_all_clients(p) /\ Served
    \/ \E c \in ClientIds, p \in WorkloadCommands : send_command(c, p) /\ Served
    \/ \E d \in WorkloadRegistrations, ip \in RemoteAddrs : add_client(d, ip) /\ Served
    \/ \E c \in ClientIds, r \in WorkloadCheckins, ip \in RemoteAddrs :
          client_update(c, r[1], r[2], ip) /\ Served
    \/ Tick

Spec == Init /\ [][Next]_vars

\* ------------------------------------- commands against every set of rows
CommandLists == {<<>>, <<"pkg-A">>, <<"pkg-A", "pkg-B">>}

CommandPayloads ==
    { AdminPayload(keys, act, upd) :
        keys \in {{"token"}, {"token", "action"}, {"token", "action", "updates"}},
        act \in Actions, upd \in CommandLists }
    \cup { NoBody,
           [token |-> "wrong-secret", action |-> "install_all_updates"],
           [action |-> "install_selected_updates", updates |-> <<"pkg-A">>] }

InitCommands ==
    /\ \E rows \in SeedRows({"c1", "c2"}, Packages, Statuses) :
          Database({"c1", "c2"}, [c \in {"c1", "c2"} |-> DefaultProfile],
                   [c \in {"c1", "c2"} |-> TRUE], rows)
    /\ Start

NextCommands ==
    \E c \in ClientIds, p \in CommandPayloads : send_command(c, p) /\ UNCHANGED nreq

SpecCommands == InitCommands /\ [][NextCommands]_vars

\* ------------------------------------------- check-ins of every shape
AuthorizationHeaders ==
    {NULL} \cup TokenStrings \cup {Bearer(t) : t \in TokenStrings}

\* JSON bodies of a check-in that carries its token
TokenPayloads ==
    { Merge([token |-> tok], more) :
        tok \in TokenStrings,
        more \in {NoBody, [updates |-> <<>>], [updates |-> <<"pkg-A">>],
                  [os_name |-> "v1", updates |-> <<"pkg-A">>]}
                 \cup { [os_name |-> v] : v \in TelemetryValues }
                 \cup { AllTelemetry(v) : v \in TelemetryValues } }

\* JSON bodies that leave the token to the Authorization header
HeaderPayloads ==
    { [k \in tk \cup tel |-> IF k = "token" THEN "" ELSE "v1"] :
        tk \in {{}, {"token"}}, tel \in {{}, {"os_name"}} }

\* (body, Authorization header) of the check-ins
CheckinRequests ==
    (TokenPayloads \X {NULL})
    \cup ({[token |-> "t0", os_name |-> "v1"]} \X TokenStrings)
    \cup (HeaderPayloads \X AuthorizationHeaders)

\* the devices that check in: a stored one and an unknown one
CheckinIds == {"c1", "c3"}

InitCheckin ==
    /\ \E rows \in SeedRows({"c1", "c2"}, {"pkg-A"}, {"pending"}) :
          Database({"c1", "c2"}, [c \in {"c1", "c2"} |-> DefaultProfile],
                   [c \in {"c1", "c2"} |-> TRUE], rows)
    /\ Start

NextCheckin ==
    \/ \E c \in CheckinIds, r \in CheckinRequests, ip \in RemoteAddrs :
          client_update(c, r[1], r[2], ip) /\ UNCHANGED nreq
    \/ Tick

SpecCheckin == InitCheckin /\ [][NextCheckin]_vars

\* ------------------------------------------ registrations of every shape
RegisterData ==
    { [k \in keys |-> CASE k = "id" -> id
                        [] k = "client_name" -> "n1"
                        [] k = "serial_number" -> ser] :
        keys \in {{"id"}, {"id", "client_name"}, {"id", "serial_number"},
                  {"id", "client_name", "serial_number"}},
        id \in ClientIds, ser \in Serials }
    \cup { NoBody, [client_name |-> "n1", serial_number |-> "s1"] }

InitRegister ==
    /\ \E seeds \in {{}, {"c1"}, {"c1", "c2"}}, p1 \in SeedProfiles :
       \E withSerial \in [seeds -> BOOLEAN] :
          Database(seeds, [c \in seeds |-> IF c = "c1" THEN p1 ELSE DefaultProfile],
                   withSerial, <<>>)
    /\ Start

NextRegister ==
    \/ \E d \in RegisterData, ip \in RemoteAddrs : add_client(d, ip) /\ UNCHANGED nreq
    \/ \E c \in ClientIds, t \in TokenStrings, ip \in RemoteAddrs :
          client_update(c, [token |-> t], NULL, ip) /\ UNCHANGED nreq

SpecRegister == InitRegister /\ [][NextRegister]_vars

\* ------------------------------------------- the status stream over time
\* the server starts at any minute on devices last seen at any earlier one
InitOnline ==
    /\ \E t0 \in 0..MaxAge, p1 \in SeedProfiles :
       \E seen \in [SeedIds -> {NoTime} \cup 0..t0] :
          /\ now = t0
          /\ clients = [c \in SeedIds |->
                          [SeedClient(c, IF c = "c1" THEN p1 ELSE DefaultProfile,
                                      SeedSerial(c), <<>>)
                             EXCEPT !.last_checkin = seen[c]]]
    /\ cupdates = <<>>
    /\ issued = [c \in SeedIds |-> <<SeedToken(c)>>]
    /\ nextToken = NumSeedTokens
    /\ nreq = 0
    /\ req = Request("none", NULL, NoBody, NULL)
    /\ resp = Response("none", NULL, 0, [status |-> ""])

NextOnline ==
    \/ sse_clients /\ UNCHANGED nreq
    \/ \E c \in SeedIds, v \in TelemetryValues, ip \in RemoteAddrs :
          client_update(c, [token |-> SeedToken(c), os_name |-> v], NULL, ip)
             /\ UNCHANGED nreq
    \/ Tick

SpecOnline == InitOnline /\ [][NextOnline]_vars

\* ------------------------------------ one flag route, called again and again
InitAdmin ==
    /\ \E seeds \in {{}, {"c1"}, {"c1", "c2"}} :
       \E profile \in [seeds -> SeedProfiles] :
          Database(seeds, profile, [c \in seeds |-> TRUE], <<>>)
    /\ Start

\* the request is the first of the run or repeats the one before it
Repeated ==
    \/ req.op = "none"
    \/ req'.op = req.op /\ req'.client_id = req.client_id

NextAdmin ==
    \/ \E c \in ClientIds : approve_client(c) /\ Repeated /\ Served
    \/ \E c \in ClientIds : force_update_client(c) /\ Repeated /\ Served
    \/ \E c \in ClientIds : allow_checkin_client(c) /\ Repeated /\ Served

SpecAdmin == InitAdmin /\ [][NextAdmin]_vars

\* ================================================================== claims
\* a step taken by the named handler (Tick is the only step that moves `now`)
Handled(op) == now' = now /\ req'.op = op

\* the elements of a list
Elements(l) == {l[k] : k \in 1..Len(l)}

\* every token string a check-in carries, in whatever form
Carried(r) ==
    (IF "token" \in DOMAIN r.payload THEN {r.payload["token"]} ELSE {})
    \cup {r.authorization}
    \cup {t \in TokenStrings : r.authorization = Bearer(t)}

Last(l) == l[Len(l)]

\* C1: for an approved device with allow_checkin set, a successful check-in
\* returns force_check = true exactly when a force-update is staged, and
\* clears the staged flag: one delivery per ForceUpdate.
C1_ForceCheckOnce ==
    [][ (Handled("client_update") /\ resp'.status = 200) =>
          LET c == req'.client_id IN
          (clients[c].approved /\ clients[c].allow_checkin) =>
             /\ Get(resp'.body, "force_check", FALSE) = clients[c].force_update
             /\ ~clients'[c].force_update ]_vars

\* C2 as claimed: a check-in of a stored device that presents a token, but
\* carries the stored token nowhere, is answered 401 and changes nothing.
C2_WrongTokenUnauthorized ==
    [][ ( /\ Handled("client_update")
          /\ req'.client_id \in DOMAIN clients
          /\ Carried(req') \cap TokenStrings # {}
          /\ clients[req'.client_id].token \notin Carried(req') ) =>
             /\ resp'.status = 401
             /\ clients' = clients /\ cupdates' = cupdates ]_vars

\* C2 as amended: a check-in of a stored device that carries the stored token
\* nowhere changes nothing and is refused, with 401 when the JSON body is
\* non-empty and with 400 when it is missing or empty.
C2_WrongTokenRefused ==
    [][ ( /\ Handled("client_update")
          /\ req'.client_id \in DOMAIN clients
          /\ clients[req'.client_id].token \notin Carried(req') ) =>
             /\ resp'.status = (IF DOMAIN req'.payload = {} THEN 400 ELSE 401)
             /\ clients' = clients /\ cupdates' = cupdates
             /\ nextToken' = nextToken ]_vars

\* a stored device that has checked in before was just refused a wrong token
C2_Witness ==
    /\ req.op = "client_update" /\ resp.status = 401
    /\ req.client_id \in DOMAIN clients
    /\ clients[req.client_id].token \notin Carried(req)
    /\ Carried(req) \cap TokenStrings # {}
    /\ clients[req.client_id].last_checkin # NoTime
    /\ clients[req.client_id].os_name # NULL

\* C3: registering an id that is already stored answers "Client already
\* exists" and changes no device, whatever serial number or name it carries.
C3_RegisterExisting ==
    [][ ( /\ Handled("add_client")
          /\ "id" \in DOMAIN req'.payload
          /\ req'.payload["id"] \in DOMAIN clients ) =>
             /\ resp'.status = 400
             /\ resp'.body = [error |-> "Client already exists"]
             /\ clients' = clients /\ cupdates' = cupdates
             /\ nextToken' = nextToken ]_vars

\* the refused registration carried the serial number of another stored device
C3_Witness ==
    /\ req.op = "add_client"
    /\ resp.body = [error |-> "Client already exists"]
    /\ "serial_number" \in DOMAIN req.payload
    /\ \E c \in DOMAIN clients :
          c # req.payload["id"] /\ clients[c].serial_number = req.payload["serial_number"]

\* C4: the stored token of a device is the token last issued to it and none
\* of the earlier ones; a check-in that presents the last issued token
\* succeeds, one that presents an earlier token is answered 401, and no
\* check-in succeeds without carrying the last issued token.
C4_OneTokenAuthenticates ==
    /\ [](\A c \in DOMAIN clients :
             /\ clients[c].token = Last(issued[c])
             /\ \A k \in 1..(Len(issued[c]) - 1) : issued[c][k] # Last(issued[c]))
    /\ [][ ( /\ Handled("client_update")
             /\ req'.client_id \in DOMAIN clients ) =>
             LET c == req'.client_id
                 t == Get(req'.payload, "token", NULL) IN
             /\ resp'.status = 200 => Last(issued[c]) \in Carried(req')
             /\ t = Last(issued[c]) => resp'.status = 200
             /\ (\E k \in 1..(Len(issued[c]) - 1) : t = issued[c][k])
                   => resp'.status = 401 ]_vars

\* a device whose token was rotated has checked in with the new one
C4_Witness ==
    /\ req.op = "client_update" /\ resp.status = 200
    /\ Len(issued[req.client_id]) >= 2
    /\ req.payload["token"] = Last(issued[req.client_id])

\* an authorized command to a stored device
AuthorizedCommand ==
    /\ Handled("send_command")
    /\ req'.client_id \in DOMAIN clients
    /\ auth_admin(req'.payload)

Installing(row) == [row EXCEPT !.status = "installing"]

\* C5: install_selected_updates with selection S sets to "installing" exactly
\* the rows of the named device whose package is in S and whose status is
\* "pending"; every other row is left as it was.
C5_SelectedOnlyPending ==
    [][ ( /\ AuthorizedCommand
          /\ Get(req'.payload, "action", NULL) = "install_selected_updates" ) =>
             LET c == req'.client_id
                 S == Elements(Get(req'.payload, "updates", <<>>)) IN
             /\ DOMAIN cupdates' = DOMAIN cupdates
             /\ \A i \in DOMAIN cupdates :
                   cupdates'[i] =
                      IF /\ cupdates[i].client_id = c
                         /\ cupdates[i].kb_or_package \in S
                         /\ cupdates[i].status = "pending"
                      THEN Installing(cupdates[i])
                      ELSE cupdates[i] ]_vars

\* C6: install_all_updates sets every "pending" row of the named device to
\* "installing" and leaves every other row, of that device or of another,
\* as it was.
C6_InstallAll ==
    [][ ( /\ AuthorizedCommand
          /\ Get(req'.payload, "action", NULL) = "install_all_updates" ) =>
             LET c == req'.client_id IN
             /\ resp'.status = 200
             /\ DOMAIN cupdates' = DOMAIN cupdates
             /\ \A i \in DOMAIN cupdates :
                   cupdates'[i] =
                      IF cupdates[i].client_id = c /\ cupdates[i].status = "pending"
                      THEN Installing(cupdates[i])
                      ELSE cupdates[i]
             /\ clients' = clients ]_vars

\* install_all_updates was served for a device that has a row now
\* "installing" next to a row it must not touch
C6_Witness ==
    /\ req.op = "send_command" /\ resp.status = 200
    /\ Get(req.payload, "action", NULL) = "install_all_updates"
    /\ \E i, j \in DOMAIN cupdates :
          /\ cupdates[i].client_id = req.client_id
          /\ cupdates[i].status = "installing"
          /\ cupdates[j].status # "installing"
          /\ cupdates[j].client_id = req.client_id
                \/ cupdates[j].status = "pending"

\* C7: an authorized command to a stored device is answered "Unknown action"
\* exactly when its action is neither install_selected_updates nor
\* install_all_updates, whatever the selection; and a command answered
\* "Unknown action" changes no row.
C7_UnknownActionIff ==
    [][ AuthorizedCommand =>
          /\ (resp'.status = 400 /\ resp'.body = [error |-> "Unknown action"])
                <=> Get(req'.payload, "action", NULL)
                       \notin {"install_selected_updates", "install_all_updates"}
          /\ resp'.status = 400 => cupdates' = cupdates ]_vars

\* C8: a successful check-in that carries an update list leaves the device
\* with exactly the reported packages as its rows and with updates_available
\* true iff the list is non-empty; rows of other devices are untouched.
C8_UpdatesReplaced ==
    [][ ( /\ Handled("client_update") /\ resp'.status = 200
          /\ "updates" \in DOMAIN req'.payload ) =>
             LET c == req'.client_id
                 U == req'.payload["updates"] IN
             /\ {cupdates'[i].kb_or_package :
                    i \in {j \in DOMAIN cupdates' : cupdates'[j].client_id = c}}
                  = Elements(U)
             /\ clients'[c].updates_available = (Len(U) > 0)
             /\ \A i \in DOMAIN cupdates :
                   cupdates[i].client_id # c =>
                      i \in DOMAIN cupdates' /\ cupdates'[i] = cupdates[i] ]_vars

\* C9: a device has updates_available set iff it has a client_update row.
C9_UpdatesAvailableIffRows ==
    \A c \in DOMAIN clients : clients[c].updates_available <=> RowsOf(c) # {}

\* both sides of the equivalence occur among devices that have been served:
\* one with rows, one registered by the server without any
C9_Witness ==
    /\ \E c \in DOMAIN clients :
          /\ clients[c].updates_available /\ RowsOf(c) # {}
          /\ clients[c].last_checkin # NoTime
    /\ \E c \in DOMAIN clients :
          /\ ~clients[c].updates_available /\ RowsOf(c) = {}
          /\ Len(issued[c]) = 1 /\ issued[c][1] \notin {SeedToken(d) : d \in SeedIds}

\* C10: a successful check-in gives every telemetry field present in the
\* request the request's value, keeps every absent one, sets last_checkin to
\* the current time, and changes neither the device's token, approved and
\* allow_checkin nor any other device.
C10_TelemetryMerge ==
    [][ (Handled("client_update") /\ resp'.status = 200) =>
          LET c == req'.client_id
              p == req'.payload IN
          /\ \A k \in TelemetryColumns :
                clients'[c][k] = IF k \in DOMAIN p THEN p[k] ELSE clients[c][k]
          /\ clients'[c].last_checkin = now
          /\ clients'[c].token = clients[c].token
          /\ clients'[c].approved = clients[c].approved
          /\ clients'[c].allow_checkin = clients[c].allow_checkin
          /\ DOMAIN clients' = DOMAIN clients
          /\ \A o \in DOMAIN clients \ {c} : clients'[o] = clients[o] ]_vars

\* a check-in that sent os_name alone changed it and kept the stored cpu
C10_Witness ==
    /\ req.op = "client_update" /\ resp.status = 200
    /\ "os_name" \in DOMAIN req.payload /\ "cpu" \notin DOMAIN req.payload
    /\ clients[req.client_id].os_name = req.payload["os_name"]
    /\ clients[req.client_id].cpu \in TelemetryValues \ {req.payload["os_name"]}
    /\ clients[req.client_id].last_checkin = now /\ now > 0

\* the routes the administrator uses
AdminRoutes == {"approve_client", "force_update_client", "allow_checkin_client",
                "force_reinstall_client", "force_all_clients", "send_command"}

Flags(row) == <<row.approved, row.allow_checkin, row.force_update>>

\* C11: an administrative request that carries no valid administrator
\* credential (to a stored device, where it names one) is answered 401 and
\* changes no flag of any device and no client_update row.
C11_AdminNeedsCredential ==
    [][ ( /\ now' = now /\ req'.op \in AdminRoutes
          /\ ~auth_admin(req'.payload)
          /\ req'.op = "force_all_clients" \/ req'.client_id \in DOMAIN clients ) =>
             /\ resp'.status = 401
             /\ DOMAIN clients' = DOMAIN clients
             /\ \A c \in DOMAIN clients : Flags(clients'[c]) = Flags(clients[c])
             /\ cupdates' = cupdates ]_vars

\* the token of "Authorization: Bearer <token>", None for any other header
BearerToken(authorization) ==
    IF \E t \in TokenStrings : authorization = Bearer(t)
    THEN CHOOSE t \in TokenStrings : authorization = Bearer(t)
    ELSE NULL

\* the credential of a check-in: the body's token field if present, otherwise
\* the bearer token of the header
Credential(r) ==
    IF "token" \in DOMAIN r.payload
    THEN r.payload["token"]
    ELSE BearerToken(r.authorization)

\* a check-in with a JSON body whose token field, if any, is a non-empty
\* string and whose Authorization header, if any, has the Bearer form
WellFormedCheckin(r) ==
    /\ DOMAIN r.payload # {}
    /\ "token" \in DOMAIN r.payload => Truthy(r.payload["token"])
    /\ r.authorization = NULL \/ BearerToken(r.authorization) # NULL

\* C12: a well-formed check-in of a stored device succeeds iff its credential
\* (body token if present, otherwise the header's bearer token) equals the
\* stored token, and is answered 401 otherwise.
C12_CredentialPriority ==
    [][ ( /\ Handled("client_update")
          /\ req'.client_id \in DOMAIN clients
          /\ WellFormedCheckin(req') ) =>
             LET stored == clients[req'.client_id].token IN
             /\ resp'.status = 200 <=> Credential(req') = stored
             /\ resp'.status = 401 <=> Credential(req') # stored ]_vars

\* C13: a successful check-in reports force_check only when a force-update is
\* staged, and the check-in of an approved, check-in-allowed device that finds
\* one staged clears it in the same step; so of any number of check-ins after
\* one ForceUpdate at most one reports it.
C13_ForceCheckAtMostOnce ==
    [][ (Handled("client_update") /\ resp'.status = 200) =>
          LET c == req'.client_id IN
          /\ Get(resp'.body, "force_check", FALSE) =>
                clients[c].force_update /\ ~clients'[c].force_update
          /\ (clients[c].approved /\ clients[c].allow_checkin /\ clients[c].force_update)
                => ~clients'[c].force_update ]_vars

\* C14: a registration whose id is not stored and whose serial number is that
\* of a stored device creates nothing: it is answered 200 with a token never
\* issued before, which replaces the matched device's token; the device takes
\* the request's name (if given) and address, keeps every other field, and
\* every other device and every row stays as it was.
C14_SerialReadoption ==
    [][ ( /\ Handled("add_client")
          /\ "id" \in DOMAIN req'.payload
          /\ req'.payload["id"] \notin DOMAIN clients
          /\ "serial_number" \in DOMAIN req'.payload ) =>
             \A d \in DOMAIN clients :
                clients[d].serial_number = req'.payload["serial_number"] =>
                   /\ resp'.status = 200
                   /\ resp'.body = [token |-> clients'[d].token]
                   /\ DOMAIN clients' = DOMAIN clients
                   /\ \A o \in DOMAIN clients :
                         /\ clients'[d].token # clients[o].token
                         /\ clients'[d].token \notin Elements(issued[o])
                   /\ clients'[d].ip_address \in RemoteAddrs
                   /\ clients'[d] =
                         [clients[d] EXCEPT
                            !.token = clients'[d].token,
                            !.client_name = Get(req'.payload, "client_name", @),
                            !.ip_address = clients'[d].ip_address]
                   /\ \A o \in DOMAIN clients \ {d} : clients'[o] = clients[o]
                   /\ cupdates' = cupdates ]_vars

\* an unknown id was registered under the serial number of a stored device,
\* which now bears the returned token and the new name, next to another device
C14_Witness ==
    /\ req.op = "add_client" /\ resp.status = 200
    /\ req.payload["id"] \notin DOMAIN clients
    /\ "serial_number" \in DOMAIN req.payload /\ "client_name" \in DOMAIN req.payload
    /\ \E d \in DOMAIN clients :
          /\ clients[d].serial_number = req.payload["serial_number"]
          /\ Len(issued[d]) >= 2
          /\ resp.body = [token |-> clients[d].token]
          /\ clients[d].client_name = req.payload["client_name"]
          /\ DOMAIN clients # {d}

\* C15: every status event reports a device online iff the device has a last
\* check-in time t with now - t <= 3 minutes, the third minute included; a
\* device never seen is offline, and devices with the same last check-in time
\* are reported alike whatever their other fields hold.
C15_IsOnline ==
    [][ Handled("sse_clients") =>
          LET online(c) == resp'.body.clients[c].online IN
          /\ DOMAIN resp'.body.clients = DOMAIN clients
          /\ \A c \in DOMAIN clients :
                online(c) <=> /\ clients[c].last_checkin # NoTime
                              /\ now - clients[c].last_checkin <= 3
          /\ \A c, d \in DOMAIN clients :
                clients[c].last_checkin = clients[d].last_checkin
                   => online(c) = online(d) ]_vars

\* an event reports a device seen exactly three minutes ago online and a
\* device seen four minutes ago offline
C15_Witness ==
    /\ req.op = "sse_clients" /\ resp.op = "sse_clients" /\ resp.body.ts = now
    /\ \E c, d \in DOMAIN clients :
          /\ now - clients[c].last_checkin = 3 /\ resp.body.clients[c].online
          /\ clients[d].last_checkin # NoTime
          /\ now - clients[d].last_checkin = 4 /\ ~resp.body.clients[d].online

\* the routes that name a device and look it up with get_or_404
LookupRoutes == {"client_update", "approve_client", "force_update_client",
                 "allow_checkin_client", "send_command"}

\* C16: a check-in, approval, force-update, allow-checkin or command that
\* names an id that is not stored is answered 404 and changes nothing: no
\* device appears, no field, token or row changes.
C16_UnknownIdNotFound ==
    [][ ( /\ now' = now /\ req'.op \in LookupRoutes
          /\ req'.client_id \notin DOMAIN clients ) =>
             /\ resp'.status = 404
             /\ clients' = clients /\ cupdates' = cupdates
             /\ nextToken' = nextToken /\ issued' = issued ]_vars

\* an unknown id was refused although the database holds devices and the
\* request carried a credential that is good elsewhere: the administrator's
\* secret, or the token of a stored device
C16_Witness ==
    /\ req.op \in {"send_command", "client_update"} /\ resp.status = 404
    /\ req.client_id \notin DOMAIN clients /\ DOMAIN clients # {}
    /\ \/ auth_admin(req.payload)
       \/ \E c \in DOMAIN clients : Get(req.payload, "token", NULL) = clients[c].token

\* C17: a check-in with a JSON body from an id that is not stored creates the
\* device, unapproved.
C17_FirstHeartbeatCreates ==
    [][ ( /\ Handled("client_update")
          /\ req'.client_id \notin DOMAIN clients
          /\ DOMAIN req'.payload # {} ) =>
             /\ DOMAIN clients' = DOMAIN clients \cup {req'.client_id}
             /\ ~clients'[req'.client_id].approved ]_vars

\* the routes that set one flag of one device
FlagRoutes == {"approve_client", "force_update_client", "allow_checkin_client"}

\* C18: approve, force-update or allow-checkin applied to a device again,
\* right after it was applied to that device, changes nothing in the database
\* and gives the answer the first application gave.
C18_Idempotent ==
    [][ ( /\ now' = now /\ req.op \in FlagRoutes
          /\ req'.op = req.op /\ req'.client_id = req.client_id ) =>
             /\ clients' = clients /\ cupdates' = cupdates
             /\ nextToken' = nextToken /\ issued' = issued
             /\ resp' = resp ]_vars

\* force-update was applied twice in a row to a stored device, which had no
\* force-update staged before the first application
C18_Witness ==
    /\ nreq = 2 /\ req.op = "force_update_client" /\ resp.status = 204
    /\ clients[req.client_id].force_update
    /\ \E c \in DOMAIN clients : c # req.client_id /\ ~clients[c].force_update

\* C19: a registration whose id is not stored and which carries no serial
\* number creates the device under that id with the token it returns, a token
\* no stored device holds, and changes no stored device.
C19_RegisterWithoutSerial ==
    [][ ( /\ Handled("add_client")
          /\ "id" \in DOMAIN req'.payload
          /\ req'.payload["id"] \notin DOMAIN clients
          /\ "serial_number" \notin DOMAIN req'.payload ) =>
             LET id == req'.payload["id"] IN
             /\ resp'.status = 200
             /\ DOMAIN clients' = DOMAIN clients \cup {id}
             /\ \A c \in DOMAIN clients : clients'[c] = clients[c]
             /\ resp'.body = [token |-> clients'[id].token]
             /\ \A c \in DOMAIN clients : clients'[id].token # clients[c].token ]_vars

\* C20: no step removes a device, and no step takes the approval of an
\* approved device away.
C20_NeverRemovedNorRevoked ==
    [][ /\ DOMAIN clients \subseteq DOMAIN clients'
        /\ \A c \in DOMAIN clients : clients[c].approved => clients'[c].approved ]_vars

\* an approved device has checked in and has had its token rotated by
\* re-adoption, and is still approved
C20_Witness ==
    \E c \in DOMAIN clients :
       /\ clients[c].approved
       /\ clients[c].last_checkin # NoTime
       /\ Len(issued[c]) >= 2 /\ clients[c].token = Last(issued[c])

====
